---- MODULE Spec2Model ----
(***************************************************************************)
(* Model of the billing service of encore-temporal-go: the Bill aggregate  *)
(* (billing.go) and the BillWorkflow orchestrator (workflow.go) that owns  *)
(* it: the selector loop over the add-item / charge / cancel signal        *)
(* channels and the period-end timer, the per-item charge fan-out with     *)
(* retries, the join, the resolution step and the refund fan-out.          *)
(*                                                                         *)
(* Spec     : one execution of BillWorkflow fed by signals and the timer.  *)
(* SpecAgg  : the Bill methods called directly on an arbitrary Bill value, *)
(*            as the unit tests of billing_test.go do.                     *)
(***************************************************************************)
EXTENDS Integers, Sequences, FiniteSets, TLC

\* ---------------------------------------------------------------- bounds
\* number of signals the environment delivers to one workflow execution
MaxSignals == 3
\* longest item list of a Bill value handed to a method in SpecAgg
MaxAggItems == 2
MaxOps == 3
\* largest number of items of a bill whose charge fan-out is followed
MaxFanOut == 3

\* ------------------------------------------------------ program constants
ItemPending  == "PENDING"
ItemCharged  == "CHARGED"
ItemFailed   == "FAILED"
ItemCanceled == "CANCELED"
ItemRefunded == "REFUNDED"

BillOpen        == "OPEN"
BillCharging    == "CHARGING"
BillSettled     == "SETTLED"
BillCanceled    == "CANCELED"
BillExpired     == "EXPIRED"
BillFailed      == "FAILED"
BillCompensated == "COMPENSATED"

ErrNil            == "nil"
ErrBillNotOpen    == "bill is not open"
ErrCannotCancel   == "cannot cancel bill in current state"
ErrNoPendingItems == "no pending items to charge"
ErrDuplicateItem  == "item already exists"

\* RetryPolicy.MaximumAttempts of the activity options
MaximumAttempts == 5

ItemStatuses == {ItemPending, ItemCharged, ItemFailed, ItemCanceled, ItemRefunded}
BillStatuses == {BillOpen, BillCharging, BillSettled, BillCanceled, BillExpired,
                 BillFailed, BillCompensated}
TerminalStatuses == BillStatuses \ {BillOpen, BillCharging}

\* ------------------------------------------------------------ input sets
ItemIDs == {"a", "b"}
\* ChargeLineItemActivity fails exactly for the name "FAIL"
Names   == {"Book", "FAIL"}
\* amounts stay far below the int64 range, so Total never wraps
Amounts == {1, 2}
\* the Status field a caller puts in the signal payload: the workflow tests
\* leave the zero value (the endpoint sends PENDING, which AddItem's own
\* assignment makes indistinguishable)
PayloadStatuses == {""}

Payloads == [ID : ItemIDs, Name : Names, Amount : Amounts, Status : PayloadStatuses]

\* the arguments BillWorkflow is started with
BillID  == "bill-1"
BillCur == "USD"

\* --------------------------------------------------------------- helpers
RECURSIVE SumAmounts(_)
SumAmounts(items) ==
    IF items = <<>> THEN 0 ELSE Head(items).Amount + SumAmounts(Tail(items))

RECURSIVE SelectSeqIDs(_, _)
\* the IDs of the items of the given status, in list order
SelectSeqIDs(items, st) ==
    IF items = <<>> THEN <<>>
    ELSE IF Head(items).Status = st
         THEN <<Head(items).ID>> \o SelectSeqIDs(Tail(items), st)
         ELSE SelectSeqIDs(Tail(items), st)

AllIDs(items) == [i \in 1..Len(items) |-> items[i].ID]

UniqueIDs(items) ==
    \A i, j \in 1..Len(items) : items[i].ID = items[j].ID => i = j

\* ------------------------------------------------- Bill (billing.go)
NewBill == [ID |-> BillID, Status |-> BillOpen, Currency |-> BillCur,
            Items |-> <<>>, Total |-> 0]

PendingCount(b) == Cardinality({i \in 1..Len(b.Items) : b.Items[i].Status = ItemPending})

AddItemNoDupCheck(b, li) ==
    IF b.Status # BillOpen
    THEN [bill |-> b, err |-> ErrBillNotOpen]
    ELSE [bill |-> [b EXCEPT !.Items = Append(@, [li EXCEPT !.Status = ItemPending]),
                             !.Total = @ + li.Amount],
          err |-> ErrNil]

AddItemNoStatusCheck(b, li) ==
    IF \E i \in 1..Len(b.Items) : b.Items[i].ID = li.ID
    THEN [bill |-> b, err |-> ErrDuplicateItem]
    ELSE [bill |-> [b EXCEPT !.Items = Append(@, [li EXCEPT !.Status = ItemPending]),
                             !.Total = @ + li.Amount],
          err |-> ErrNil]

AddItemDupOverwrites(b, li) ==
    IF b.Status # BillOpen
    THEN [bill |-> b, err |-> ErrBillNotOpen]
    ELSE IF \E i \in 1..Len(b.Items) : b.Items[i].ID = li.ID
    THEN [bill |-> [b EXCEPT !.Total = @ + li.Amount], err |-> ErrDuplicateItem]
    ELSE [bill |-> [b EXCEPT !.Items = Append(@, [li EXCEPT !.Status = ItemPending]),
                             !.Total = @ + li.Amount],
          err |-> ErrNil]

AddItem(b, li) ==
    IF b.Status # BillOpen
    THEN [bill |-> b, err |-> ErrBillNotOpen]
    ELSE IF \E i \in 1..Len(b.Items) : b.Items[i].ID = li.ID
    THEN [bill |-> b, err |-> ErrDuplicateItem]
    ELSE [bill |-> [b EXCEPT !.Items = Append(@, [li EXCEPT !.Status = ItemPending]),
                             !.Total = @ + li.Amount],
          err |-> ErrNil]

BeginChargeNoPendingCheck(b) ==
    IF b.Status # BillOpen
    THEN [bill |-> b, err |-> ErrBillNotOpen]
    ELSE [bill |-> [b EXCEPT !.Status = BillCharging], err |-> ErrNil]

BeginCharge(b) ==
    IF b.Status # BillOpen
    THEN [bill |-> b, err |-> ErrBillNotOpen]
    ELSE IF PendingCount(b) = 0
    THEN [bill |-> b, err |-> ErrNoPendingItems]
    ELSE [bill |-> [b EXCEPT !.Status = BillCharging], err |-> ErrNil]

CancelRemovesPending(items) ==
    SelectSeq(items, LAMBDA it : it.Status # ItemPending)

CancelAllItems(items) ==
    [i \in 1..Len(items) |-> [items[i] EXCEPT !.Status = ItemCanceled]]

CancelPending(items) ==
    [i \in 1..Len(items) |->
        IF items[i].Status = ItemPending
        THEN [items[i] EXCEPT !.Status = ItemCanceled]
        ELSE items[i]]

CancelResetsTotal(b) ==
    IF b.Status # BillOpen
    THEN [bill |-> b, err |-> ErrCannotCancel]
    ELSE [bill |-> [b EXCEPT !.Status = BillCanceled, !.Items = CancelPending(@),
                             !.Total = 0],
          err |-> ErrNil]

CancelNoStatusCheck(b) ==
    [bill |-> [b EXCEPT !.Status = BillCanceled, !.Items = CancelPending(@)],
     err |-> ErrNil]

Cancel(b) ==
    IF b.Status # BillOpen
    THEN [bill |-> b, err |-> ErrCannotCancel]
    ELSE [bill |-> [b EXCEPT !.Status = BillCanceled, !.Items = CancelPending(@)],
          err |-> ErrNil]

ExpireKeepsItems(b) == [b EXCEPT !.Status = BillExpired]

ExpireOnlyOpen(b) ==
    IF b.Status = BillOpen
    THEN [b EXCEPT !.Status = BillExpired, !.Items = CancelPending(@)]
    ELSE b

Expire(b) == [b EXCEPT !.Status = BillExpired, !.Items = CancelPending(@)]

\* ------------------------------------------------------------------ state
VARIABLES
    bill,          \* the *Bill the workflow owns
    addCh,         \* buffered AddLineItem signals (payloads, in delivery order)
    chargeCh,      \* number of buffered ChargeBill signals
    cancelCh,      \* number of buffered CancelBill signals
    timer,         \* the timer future: "pending", "fired" or "canceled"
    deadlinePassed,\* whether periodEnd has passed
    pc,            \* position of the workflow's main coroutine
    chargeTasks,   \* indices of items whose charge coroutine has not finished
    attempts,      \* per item index: charge attempts made so far
    outcome,       \* per item index: final result of its charge activity
    chargeWG,      \* counter of chargeWG
    refundTasks,   \* indices of items whose refund coroutine has not finished
    refundWG,      \* counter of refundWG
    refundedCount, \* refundedCount of the partial-failure branch
    creditAttempts,\* attempts of CreditAccountActivity made so far
    balance,       \* the ledger balance of the bill's currency
    result,        \* what BillWorkflow returned: [kind, details]
    ignored,       \* errors the loop logged as "... ignored"
    sent,          \* number of signals delivered so far
    launched,      \* history: item indices a charge task was started for
    refundLaunched,\* history: item indices a refund task was started for
    tallied,       \* history: the item statuses the tally read
    expireFrom,    \* history: the bill statuses Expire was invoked in
    atCharge,      \* history: the bill as BeginCharge left it
    call,          \* SpecAgg: the last direct method call [op, before, err]
    credited,      \* history: the arguments CreditAccountActivity was run with
    snap,          \* SpecQuery: the QueryBill result a caller holds
    balances,      \* SpecLedger: the ledger map, currency -> balance
    mu,            \* SpecLedger: the thread that holds the mutex, 0 if none
    thr,           \* SpecLedger: per thread, the ledger call it is in
    net,           \* SpecLedger history: balances as the completed calls add up
    ops,           \* SpecLedger: number of ledger calls started
    req,           \* SpecApi: per caller, the endpoint request it is in
    okAdds,        \* SpecApi history: per item ID, AddItem calls that returned nil
    ret,           \* SpecApi: the last response of an endpoint
    cancelFirst    \* SpecOrder history: a charge signal was delivered to an Open
                   \* bill while an earlier cancel signal was still buffered

vars == <<bill, addCh, chargeCh, cancelCh, timer, deadlinePassed, pc, chargeTasks,
          attempts, outcome, chargeWG, refundTasks, refundWG, refundedCount,
          creditAttempts, balance, result, ignored, sent, launched, refundLaunched,
          tallied, expireFrom, atCharge, call, credited, snap, balances, mu, thr,
          net, ops, req, okAdds, ret, cancelFirst>>

chanVars == <<addCh, chargeCh, cancelCh, sent>>
taskVars == <<chargeTasks, attempts, outcome, chargeWG, refundTasks, refundWG, refundedCount,
              launched, refundLaunched, tallied>>
tailVars == <<creditAttempts, balance, credited>>
queryVars == <<snap>>
ledgerVars == <<balances, mu, thr, net, ops>>
apiVars == <<req, okAdds, ret>>
orderVars == <<cancelFirst>>
sideVars == <<ledgerVars, apiVars, orderVars>>

Running == [kind |-> "running", details |-> <<>>]
NoTally == [ran |-> FALSE, running |-> {}, failedCount |-> 0, totalItems |-> 0]
NoCall  == [op |-> "none", before |-> NewBill, err |-> ErrNil]
NoSnap  == [ID |-> "", Status |-> "", Currency |-> "", Total |-> 0, Items |-> <<>>,
            shared |-> FALSE, edited |-> FALSE]

\* ------------------------------------------------ the account ledger
\* internal/currency: the supported codes (two of the three are modelled)
SupportedCurrencies == <<"USD", "EUR">>
Currencies == {SupportedCurrencies[i] : i \in 1..Len(SupportedCurrencies)}
Threads == {1, 2}

\* `balances = make(map[currency.Currency]int64)`: a missing key reads as 0
ZeroBalances == [c \in Currencies |-> 0]
NoOut == [c \in Currencies |-> 0]
IdleThread == [op |-> "none", cur |-> "", amt |-> 0, pc |-> "idle", tmp |-> 0,
               err |-> "", out |-> NoOut]

LedgerIdle ==
    /\ balances = ZeroBalances
    /\ mu = 0
    /\ thr = [t \in Threads |-> IdleThread]
    /\ net = ZeroBalances
    /\ ops = 0

\* ------------------------------------------------ the service endpoints
Callers == {1, 2}
NoRequest == [op |-> "none", pc |-> "idle", li |-> [ID |-> "", Name |-> "", Amount |-> 0, Status |-> ""]]
NoResponse == [op |-> "none", err |-> "", status |-> ""]

ApiIdle ==
    /\ req = [c \in Callers |-> NoRequest]
    /\ okAdds = [id \in ItemIDs |-> 0]
    /\ ret = NoResponse

InitWorkflow ==
    /\ bill = NewBill
    /\ addCh = <<>>
    /\ chargeCh = 0
    /\ cancelCh = 0
    /\ timer = "pending"
    /\ deadlinePassed = FALSE
    /\ pc = "select"
    /\ chargeTasks = {}
    /\ attempts = <<>>
    /\ outcome = <<>>
    /\ chargeWG = 0
    /\ refundTasks = {}
    /\ refundWG = 0
    /\ refundedCount = 0
    /\ creditAttempts = 0
    /\ balance = 0
    /\ result = Running
    /\ ignored = {}
    /\ sent = 0
    /\ launched = {}
    /\ refundLaunched = {}
    /\ tallied = NoTally
    /\ expireFrom = {}
    /\ atCharge = NewBill
    /\ call = NoCall
    /\ credited = {}
    /\ snap = NoSnap

OrderIdle == cancelFirst = FALSE

Init == InitWorkflow /\ LedgerIdle /\ ApiIdle /\ OrderIdle

\* ---------------------------------------------------- the environment
\* a signal is accepted for a workflow execution that has not completed
\* Service.AddItem / a test: SignalWorkflow(SignalAddLineItem, li)
SignalAddLineItem(li) ==
    /\ pc # "done"
    /\ sent < MaxSignals
    /\ addCh' = Append(addCh, li)
    /\ sent' = sent + 1
    /\ UNCHANGED <<bill, chargeCh, cancelCh, timer, deadlinePassed, pc, taskVars,
                   tailVars, result, ignored, expireFrom, atCharge, call, queryVars, sideVars>>

SignalChargeBill ==
    /\ pc # "done"
    /\ sent < MaxSignals
    /\ chargeCh' = chargeCh + 1
    /\ sent' = sent + 1
    /\ UNCHANGED <<bill, addCh, cancelCh, timer, deadlinePassed, pc, taskVars,
                   tailVars, result, ignored, expireFrom, atCharge, call, queryVars, sideVars>>

SignalCancelBill ==
    /\ pc # "done"
    /\ sent < MaxSignals
    /\ cancelCh' = cancelCh + 1
    /\ sent' = sent + 1
    /\ UNCHANGED <<bill, addCh, chargeCh, timer, deadlinePassed, pc, taskVars,
                   tailVars, result, ignored, expireFrom, atCharge, call, queryVars, sideVars>>

\* periodEnd passes: a timer that was not canceled becomes ready
DeadlinePasses ==
    /\ ~deadlinePassed
    /\ deadlinePassed' = TRUE
    /\ timer' = IF timer = "pending" THEN "fired" ELSE timer
    /\ UNCHANGED <<bill, chanVars, pc, taskVars, tailVars, result, ignored,
                   expireFrom, atCharge, call, queryVars, sideVars>>

\* ------------------------------------------- BillWorkflow: selector loop
\* the condition of `for bill.Status == BillOpen`
LoopCondNotCanceled(b) == b.Status # BillCanceled

LoopCondNever(b) == FALSE

LoopCondAlways(b) == TRUE

LoopCondUntilTerminal(b) == b.Status \in {BillOpen, BillCharging}

LoopCondNotExpired(b) == b.Status # BillExpired

LoopCond(b) == b.Status = BillOpen

AfterHandlerStays(b) == "select"

AfterHandler(b) == IF LoopCond(b) THEN "select" ELSE "switch"

\* cancelTimer(): the timer future resolves with a CanceledError
cancelTimer(t) == IF t = "pending" THEN "canceled" ELSE t

\* a future is ready once it has a value or an error
TimerReady == timer \in {"fired", "canceled"}

\* the cases of the selector in the order the loop adds them
SelectorCases == <<"add", "charge", "cancel", "timer">>

CaseReady(c) ==
    CASE c = "add"    -> addCh # <<>>
      [] c = "charge" -> chargeCh > 0
      [] c = "cancel" -> cancelCh > 0
      [] c = "timer"  -> TimerReady

\* selector.Select runs the callback of one case per call: the first ready
\* case in the order the cases were added
PickLastReady(k) ==
    /\ CaseReady(SelectorCases[k])
    /\ \A j \in (k + 1)..Len(SelectorCases) : ~CaseReady(SelectorCases[j])

PickAnyReady(k) == CaseReady(SelectorCases[k])

Pick(k) ==
    /\ CaseReady(SelectorCases[k])
    /\ \A j \in 1..(k - 1) : ~CaseReady(SelectorCases[j])

TimerAfterAlways(err, t) == cancelTimer(t)

\* a handler returns on an error before it reaches cancelTimer()
TimerAfter(err, t) == IF err = ErrNil THEN cancelTimer(t) ELSE t

SelectAdd ==
    /\ pc = "select"
    /\ Pick(1)
    /\ LET r == AddItem(bill, Head(addCh)) IN
        /\ bill' = r.bill
        /\ ignored' = IF r.err # ErrNil THEN ignored \cup {r.err} ELSE ignored
        /\ pc' = AfterHandler(r.bill)
    /\ addCh' = Tail(addCh)
    /\ UNCHANGED <<chargeCh, cancelCh, sent, timer, deadlinePassed, taskVars,
                   tailVars, result, expireFrom, atCharge, call, queryVars, sideVars>>

SelectCharge ==
    /\ pc = "select"
    /\ Pick(2)
    /\ LET r == BeginCharge(bill) IN
        /\ bill' = r.bill
        /\ ignored' = IF r.err # ErrNil THEN ignored \cup {r.err} ELSE ignored
        /\ timer' = TimerAfter(r.err, timer)
        /\ atCharge' = IF r.err = ErrNil THEN r.bill ELSE atCharge
        /\ pc' = AfterHandler(r.bill)
    /\ chargeCh' = chargeCh - 1
    /\ UNCHANGED <<addCh, cancelCh, sent, deadlinePassed, taskVars, tailVars,
                   result, expireFrom, call, queryVars, sideVars>>

SelectCancel ==
    /\ pc = "select"
    /\ Pick(3)
    /\ LET r == Cancel(bill) IN
        /\ bill' = r.bill
        /\ ignored' = IF r.err # ErrNil THEN ignored \cup {r.err} ELSE ignored
        /\ timer' = TimerAfter(r.err, timer)
        /\ pc' = AfterHandler(r.bill)
    /\ cancelCh' = cancelCh - 1
    /\ UNCHANGED <<addCh, chargeCh, sent, deadlinePassed, taskVars, tailVars,
                   result, expireFrom, atCharge, call, queryVars, sideVars>>

SelectTimer ==
    /\ pc = "select"
    /\ Pick(4)
    /\ bill' = Expire(bill)
    /\ expireFrom' = expireFrom \cup {bill.Status}
    /\ pc' = AfterHandler(Expire(bill))
    /\ UNCHANGED <<chanVars, timer, deadlinePassed, taskVars, tailVars, result,
                   ignored, atCharge, call, queryVars, sideVars>>

\* ------------------------------------- BillWorkflow: after the loop
\* `if item.Status != ItemPending { continue }` of the charge fan-out
ShouldChargeSkipsFail(item) == item.Status = ItemPending /\ item.Name # "FAIL"

ShouldCharge(item) == item.Status = ItemPending

\* the `switch bill.Status` that follows the loop; in the BillCharging case
\* one coroutine per pending item is started and the main coroutine blocks
\* in chargeWG.Wait
Switch ==
    /\ pc = "switch"
    /\ IF bill.Status \in {BillCanceled, BillExpired}
       THEN /\ result' = [kind |-> ErrNil, details |-> <<>>]
            /\ pc' = "done"
            /\ UNCHANGED <<chargeTasks, attempts, outcome, chargeWG, launched>>
       ELSE IF bill.Status = BillCharging
       THEN LET start == {i \in 1..Len(bill.Items) : ShouldCharge(bill.Items[i])} IN
            /\ chargeTasks' = start
            /\ launched' = start
            /\ chargeWG' = Cardinality(start)
            /\ attempts' = [i \in 1..Len(bill.Items) |-> 0]
            /\ outcome' = [i \in 1..Len(bill.Items) |-> "none"]
            /\ pc' = "chargeWait"
            /\ UNCHANGED result
       ELSE /\ result' = [kind |-> "invalid state", details |-> <<>>]
            /\ pc' = "done"
            /\ UNCHANGED <<chargeTasks, attempts, outcome, chargeWG, launched>>
    /\ UNCHANGED <<bill, chanVars, timer, deadlinePassed, refundTasks, refundWG,
                   refundedCount, refundLaunched, tallied, tailVars, ignored,
                   expireFrom, atCharge, call, queryVars, sideVars>>

\* ChargeLineItemActivity: the error it returns for the name "FAIL"; any
\* attempt may also fail in the activity worker (StartToCloseTimeout)
MayFail(item) == TRUE
MaySucceed(item) == item.Name # "FAIL"

\* whether the activity is attempted again after `n` failed attempts
RetryNever(n) == FALSE

Retry(n) == n < MaximumAttempts

\* the item status a charge coroutine writes for the activity's final result
ChargeStatus(ok) == IF ok THEN ItemCharged ELSE ItemFailed

\* one attempt of ChargeLineItemActivity for item i; on the final result the
\* coroutine writes item.Status and calls chargeWG.Done
ChargeAttempt(i, ok) ==
    /\ pc # "done"
    /\ i \in chargeTasks
    /\ IF ok THEN MaySucceed(bill.Items[i]) ELSE MayFail(bill.Items[i])
    /\ attempts' = [attempts EXCEPT ![i] = @ + 1]
    /\ IF ok \/ ~Retry(attempts[i] + 1)
       THEN /\ bill' = [bill EXCEPT !.Items[i].Status = ChargeStatus(ok)]
            /\ outcome' = [outcome EXCEPT ![i] = IF ok THEN "ok" ELSE "err"]
            /\ chargeTasks' = chargeTasks \ {i}
            /\ chargeWG' = chargeWG - 1
       ELSE UNCHANGED <<bill, outcome, chargeTasks, chargeWG>>
    /\ UNCHANGED <<chanVars, timer, deadlinePassed, pc, refundTasks, refundWG,
                   refundedCount, launched, refundLaunched, tallied, tailVars,
                   result, ignored, expireFrom, atCharge, call, queryVars, sideVars>>

\* WaitGroup.Wait returns once the counter is zero
WaitAlways(wg) == TRUE

WaitFirstDone(wg) == wg <= 1

Wait(wg) == wg = 0

FailedCount(items) == Cardinality({i \in 1..Len(items) : items[i].Status = ItemFailed})

\* `if item.Status == ItemCharged` of the refund fan-out
ShouldRefundFailed(item) == item.Status = ItemFailed

ShouldRefundNotPending(item) == item.Status # ItemPending

ShouldRefund(item) == item.Status = ItemCharged

\* the details of the ChargeFailed error
FailedIDsNone(items) == <<>>

FailedIDsAll(items) == AllIDs(items)

\* the details of the ChargeCompensated error
FailedIDsRefunded(items) == SelectSeqIDs(items, ItemRefunded)

FailedIDs(items) == SelectSeqIDs(items, ItemFailed)

\* the branch taken for (failedCount, totalItems)
BranchSettlesPartial(failedCount, totalItems) ==
    IF failedCount = totalItems THEN "failed"
    ELSE "settled"

BranchNeverFailed(failedCount, totalItems) ==
    IF failedCount = 0 THEN "settled"
    ELSE "compensate"

Branch(failedCount, totalItems) ==
    IF failedCount = totalItems THEN "failed"
    ELSE IF failedCount = 0 THEN "settled"
    ELSE "compensate"

\* chargeWG.Wait returns; count failures; branch on the result
Resolve ==
    /\ pc = "chargeWait"
    /\ Wait(chargeWG)
    /\ LET failedCount == FailedCount(bill.Items)
           totalItems  == Len(bill.Items)
           branch      == Branch(failedCount, totalItems)
           charged     == {i \in 1..Len(bill.Items) : ShouldRefund(bill.Items[i])}
       IN
        /\ tallied' = [ran |-> TRUE, running |-> chargeTasks,
                       failedCount |-> failedCount, totalItems |-> totalItems]
        /\ IF branch = "failed"
           THEN /\ bill' = [bill EXCEPT !.Status = BillFailed]
                /\ result' = [kind |-> "ChargeFailed",
                              details |-> FailedIDsAll(bill.Items)]
                /\ pc' = "done"
                /\ UNCHANGED <<refundTasks, refundWG, refundLaunched>>
           ELSE IF branch = "settled"
           THEN /\ bill' = [bill EXCEPT !.Status = BillSettled]
                /\ pc' = "credit"
                /\ UNCHANGED <<result, refundTasks, refundWG, refundLaunched>>
           ELSE /\ refundTasks' = charged
                /\ refundLaunched' = charged
                /\ refundWG' = Cardinality(charged)
                /\ pc' = "refundWait"
                /\ UNCHANGED <<bill, result>>
    /\ UNCHANGED <<chanVars, timer, deadlinePassed, chargeTasks, attempts, outcome,
                   chargeWG, refundedCount, launched, tailVars, ignored, expireFrom,
                   atCharge, call, queryVars, sideVars>>

\* a refund coroutine: RefundLineItemActivity's result is discarded, then
\* item.Status = ItemRefunded, refundedCount++, refundWG.Done
Refund(i) ==
    /\ pc # "done"
    /\ i \in refundTasks
    /\ bill' = [bill EXCEPT !.Items[i].Status = ItemRefunded]
    /\ refundedCount' = refundedCount + 1
    /\ refundTasks' = refundTasks \ {i}
    /\ refundWG' = refundWG - 1
    /\ UNCHANGED <<chanVars, timer, deadlinePassed, pc, chargeTasks, attempts,
                   outcome, chargeWG, launched, refundLaunched, tallied, tailVars,
                   result, ignored, expireFrom, atCharge, call, queryVars, sideVars>>

\* refundWG.Wait returns; the bill is marked compensated and the error built
Compensate ==
    /\ pc = "refundWait"
    /\ Wait(refundWG)
    /\ bill' = [bill EXCEPT !.Status = BillCompensated]
    /\ result' = [kind |-> "ChargeCompensated", details |-> FailedIDs(bill.Items)]
    /\ pc' = "done"
    /\ UNCHANGED <<chanVars, timer, deadlinePassed, taskVars, tailVars, ignored,
                   expireFrom, atCharge, call, queryVars, sideVars>>

\* `_ = workflow.ExecuteActivity(ctx, CreditAccountActivity, ...).Get(ctx, nil)`
\* followed by the final `return nil`: what the workflow returns for the
\* activity's final result
CreditArgs(b) == [amount |-> b.Total, currency |-> b.Currency]

CreditReturnPropagated(ok) == IF ok THEN ErrNil ELSE "credit failed"

CreditReturn(ok) == ErrNil

\* one attempt of CreditAccountActivity(bill.Total, bill.Currency), which
\* calls account.AddBalance (it rejects a zero amount)
CreditAttempt(ok) ==
    /\ pc = "credit"
    /\ ok => bill.Total # 0
    /\ creditAttempts' = creditAttempts + 1
    /\ credited' = credited \cup {CreditArgs(bill)}
    /\ balance' = IF ok THEN balance + bill.Total ELSE balance
    /\ IF ok \/ ~Retry(creditAttempts + 1)
       THEN /\ result' = [kind |-> CreditReturn(ok), details |-> <<>>]
            /\ pc' = "done"
       ELSE UNCHANGED <<result, pc>>
    /\ UNCHANGED <<bill, chanVars, timer, deadlinePassed, taskVars, ignored,
                   expireFrom, atCharge, call, queryVars, sideVars>>

\* every step but the delivery of an add-item signal
OtherSteps ==
    \/ SignalChargeBill
    \/ SignalCancelBill
    \/ DeadlinePasses
    \/ SelectAdd
    \/ SelectCharge
    \/ SelectCancel
    \/ SelectTimer
    \/ Switch
    \/ \E i \in 1..Len(bill.Items), ok \in BOOLEAN : ChargeAttempt(i, ok)
    \/ Resolve
    \/ \E i \in 1..Len(bill.Items) : Refund(i)
    \/ Compensate
    \/ \E ok \in BOOLEAN : CreditAttempt(ok)

Next ==
    \/ \E li \in Payloads : SignalAddLineItem(li)
    \/ OtherSteps

Spec == Init /\ [][Next]_vars

\* ------------------------------------------------- SpecLive: fairness
\* the steps that are not the delivery of a signal: the workflow's own
\* steps, the deadline and the activity attempts
Progress ==
    \/ DeadlinePasses
    \/ SelectAdd
    \/ SelectCharge
    \/ SelectCancel
    \/ SelectTimer
    \/ Switch
    \/ \E i \in 1..Len(bill.Items), ok \in BOOLEAN : ChargeAttempt(i, ok)
    \/ Resolve
    \/ \E i \in 1..Len(bill.Items) : Refund(i)
    \/ Compensate
    \/ \E ok \in BOOLEAN : CreditAttempt(ok)

\* the worker keeps running the workflow, the deadline comes and every
\* activity attempt returns
SpecLive == Init /\ [][Next]_vars /\ WF_vars(Progress)

\* ------------------------------- SpecRaw: signals sent by any client
\* SignalWorkflow(SignalAddLineItem, li) carries whatever LineItem the
\* client built; only Service.AddItem checks the amount before it signals
RawAmounts == {-1, 0, 1}
RawPayloads == [ID : ItemIDs, Name : {"Book"}, Amount : RawAmounts, Status : PayloadStatuses]

NextRaw ==
    \/ \E li \in RawPayloads : SignalAddLineItem(li)
    \/ OtherSteps

SpecRaw == Init /\ [][NextRaw]_vars

\* ------------------------------------- SpecLedger: account.AddBalance,
\* Withdraw and GetBalances called from concurrent requests
InvalidArgument == "InvalidArgument"
FailedPrecondition == "FailedPrecondition"

AddAmounts == {-1, 0, 1}
WithdrawAmounts == {-1, 0, 1}
RawCurrencies == {"USD", "eur", "XXX"}

\* strings.ToUpper on the codes the requests carry
ToUpper(raw) == IF raw = "eur" THEN "EUR" ELSE raw

\* currency.Parse
Parse(raw) ==
    IF ToUpper(raw) \in Currencies
    THEN [cur |-> ToUpper(raw), err |-> ErrNil]
    ELSE [cur |-> "", err |-> "unsupported currency"]

wfVars == <<bill, chanVars, timer, deadlinePassed, pc, taskVars, tailVars, result,
            ignored, expireFrom, atCharge, call, queryVars>>
ledgerFrame == <<wfVars, apiVars, orderVars>>

InitLedger ==
    /\ InitWorkflow
    /\ ApiIdle
    /\ OrderIdle
    /\ balances \in [Currencies -> {0, 1}]
    /\ net = balances
    /\ mu = 0
    /\ thr = [t \in Threads |-> IdleThread]
    /\ ops = 0

Returned(op, cur, amt, err, out) ==
    [IdleThread EXCEPT !.op = op, !.cur = cur, !.amt = amt, !.err = err, !.out = out]

\* AddBalance up to mu.Lock()
CallAddBalance(t, cur, amt) ==
    /\ thr[t].pc = "idle"
    /\ ops < MaxOps
    /\ ops' = ops + 1
    /\ thr' = [thr EXCEPT ![t] =
                 IF amt = 0
                 THEN Returned("AddBalance", cur, amt, InvalidArgument, NoOut)
                 ELSE [IdleThread EXCEPT !.op = "AddBalance", !.cur = cur,
                                         !.amt = amt, !.pc = "lock"]]
    /\ UNCHANGED <<balances, mu, net, ledgerFrame>>

\* Withdraw up to mu.Lock()
CallWithdraw(t, raw, amt) ==
    /\ thr[t].pc = "idle"
    /\ ops < MaxOps
    /\ ops' = ops + 1
    /\ LET parsed == Parse(raw) IN
       thr' = [thr EXCEPT ![t] =
                 IF parsed.err # ErrNil
                 THEN Returned("Withdraw", raw, amt, InvalidArgument, NoOut)
                 ELSE IF amt <= 0
                 THEN Returned("Withdraw", parsed.cur, amt, InvalidArgument, NoOut)
                 ELSE [IdleThread EXCEPT !.op = "Withdraw", !.cur = parsed.cur,
                                         !.amt = amt, !.pc = "lock"]]
    /\ UNCHANGED <<balances, mu, net, ledgerFrame>>

\* GetBalances up to mu.Lock()
CallGetBalances(t) ==
    /\ thr[t].pc = "idle"
    /\ ops < MaxOps
    /\ ops' = ops + 1
    /\ thr' = [thr EXCEPT ![t] = [IdleThread EXCEPT !.op = "GetBalances", !.pc = "lock"]]
    /\ UNCHANGED <<balances, mu, net, ledgerFrame>>

\* mu.Lock() returns once no other goroutine holds the mutex
CanLockAlways(m) == TRUE

CanLock(m) == m = 0

Lock(t) ==
    /\ thr[t].pc = "lock"
    /\ CanLock(mu)
    /\ mu' = t
    /\ thr' = [thr EXCEPT ![t].pc = CASE thr[t].op = "AddBalance"  -> "read"
                                      [] thr[t].op = "Withdraw"    -> "check"
                                      [] thr[t].op = "GetBalances" -> "copy",
                           ![t].tmp = IF thr[t].op = "GetBalances" THEN 1 ELSE 0]
    /\ UNCHANGED <<balances, net, ops, ledgerFrame>>

\* `if balances[reqCur] < req.Amount`
InsufficientOrEqual(bal, amt) == bal <= amt

Insufficient(bal, amt) == bal < amt

WithdrawCheck(t) ==
    /\ thr[t].pc = "check"
    /\ IF Insufficient(balances[thr[t].cur], thr[t].amt)
       THEN /\ thr' = [thr EXCEPT ![t] = Returned("Withdraw", thr[t].cur, thr[t].amt,
                                                   FailedPrecondition, NoOut)]
            /\ mu' = 0
       ELSE /\ thr' = [thr EXCEPT ![t].pc = "read"]
            /\ UNCHANGED mu
    /\ UNCHANGED <<balances, net, ops, ledgerFrame>>

\* the read of `balances[c] += a` / `balances[c] -= a`
Read(t) ==
    /\ thr[t].pc = "read"
    /\ thr' = [thr EXCEPT ![t].tmp = balances[thr[t].cur], ![t].pc = "write"]
    /\ UNCHANGED <<balances, mu, net, ops, ledgerFrame>>

\* the write of `balances[c] += a` / `balances[c] -= a`, the return and the
\* deferred mu.Unlock()
Write(t) ==
    /\ thr[t].pc = "write"
    /\ LET delta == IF thr[t].op = "AddBalance" THEN thr[t].amt ELSE 0 - thr[t].amt IN
        /\ balances' = [balances EXCEPT ![thr[t].cur] = thr[t].tmp + delta]
        /\ net' = [net EXCEPT ![thr[t].cur] = @ + delta]
    /\ mu' = 0
    /\ thr' = [thr EXCEPT ![t] = Returned(thr[t].op, thr[t].cur, thr[t].amt, ErrNil, NoOut)]
    /\ UNCHANGED <<ops, ledgerFrame>>

\* one round of `for _, cur := range currency.SupportedCurrencies`; after
\* the last one the return and the deferred mu.Unlock()
Copy(t) ==
    /\ thr[t].pc = "copy"
    /\ LET k   == thr[t].tmp
           out == [thr[t].out EXCEPT ![SupportedCurrencies[k]] = balances[SupportedCurrencies[k]]]
       IN IF k = Len(SupportedCurrencies)
          THEN /\ thr' = [thr EXCEPT ![t] = Returned("GetBalances", "", 0, ErrNil, out)]
               /\ mu' = 0
          ELSE /\ thr' = [thr EXCEPT ![t].tmp = k + 1, ![t].out = out]
               /\ UNCHANGED mu
    /\ UNCHANGED <<balances, net, ops, ledgerFrame>>

NextLedger ==
    \/ \E t \in Threads, c \in Currencies, a \in AddAmounts : CallAddBalance(t, c, a)
    \/ \E t \in Threads, r \in RawCurrencies, a \in WithdrawAmounts : CallWithdraw(t, r, a)
    \/ \E t \in Threads : CallGetBalances(t)
    \/ \E t \in Threads : Lock(t)
    \/ \E t \in Threads : WithdrawCheck(t)
    \/ \E t \in Threads : Read(t)
    \/ \E t \in Threads : Write(t)
    \/ \E t \in Threads : Copy(t)

SpecLedger == InitLedger /\ [][NextLedger]_vars

\* ------------------------------------------- SpecAgg: direct method calls
\* the Bill values a caller can build: any status, at most MaxAggItems items
\* of distinct IDs in any item status, Total the sum of the amounts
AggIDs == ItemIDs \cup {"c"}

AggItems == [ID : AggIDs, Name : {"Book"}, Amount : Amounts, Status : ItemStatuses]

AggItemLists ==
    {items \in UNION {[1..n -> AggItems] : n \in 0..MaxAggItems} : UniqueIDs(items)}

AggBills ==
    {[ID |-> BillID, Status |-> st, Currency |-> BillCur, Items |-> items,
      Total |-> SumAmounts(items)] : st \in BillStatuses, items \in AggItemLists}

InitAgg ==
    /\ bill \in AggBills
    /\ pc = "unit"
    /\ call = NoCall
    /\ addCh = <<>>
    /\ chargeCh = 0
    /\ cancelCh = 0
    /\ timer = "pending"
    /\ deadlinePassed = FALSE
    /\ chargeTasks = {}
    /\ attempts = <<>>
    /\ outcome = <<>>
    /\ chargeWG = 0
    /\ refundTasks = {}
    /\ refundWG = 0
    /\ refundedCount = 0
    /\ creditAttempts = 0
    /\ balance = 0
    /\ result = Running
    /\ ignored = {}
    /\ sent = 0
    /\ launched = {}
    /\ refundLaunched = {}
    /\ tallied = NoTally
    /\ expireFrom = {}
    /\ atCharge = NewBill
    /\ credited = {}
    /\ snap = NoSnap
    /\ LedgerIdle
    /\ ApiIdle
    /\ OrderIdle

aggFrame == <<addCh, chargeCh, cancelCh, timer, deadlinePassed, pc, chargeTasks,
              attempts, outcome, atCharge, chargeWG, refundTasks, refundWG, refundedCount,
              creditAttempts, balance, result, ignored, sent, launched,
              refundLaunched, tallied, expireFrom, credited, snap, sideVars>>

CallAddItem(li) ==
    /\ pc = "unit"
    /\ LET r == AddItem(bill, li) IN
        /\ bill' = r.bill
        /\ call' = [op |-> "AddItem", before |-> bill, err |-> r.err]
    /\ UNCHANGED aggFrame

CallBeginCharge ==
    /\ pc = "unit"
    /\ LET r == BeginCharge(bill) IN
        /\ bill' = r.bill
        /\ call' = [op |-> "BeginCharge", before |-> bill, err |-> r.err]
    /\ UNCHANGED aggFrame

CallCancel ==
    /\ pc = "unit"
    /\ LET r == Cancel(bill) IN
        /\ bill' = r.bill
        /\ call' = [op |-> "Cancel", before |-> bill, err |-> r.err]
    /\ UNCHANGED aggFrame

CallExpire ==
    /\ pc = "unit"
    /\ bill' = Expire(bill)
    /\ call' = [op |-> "Expire", before |-> bill, err |-> ErrNil]
    /\ UNCHANGED aggFrame

NextAgg ==
    \/ \E li \in Payloads : CallAddItem(li)
    \/ CallBeginCharge
    \/ CallCancel
    \/ CallExpire

SpecAgg == InitAgg /\ [][NextAgg]_vars

\* ------------------------------------------- SpecQuery: QueryBill callers
\* the handler registered with SetQueryHandler; `shared` tells whether the
\* returned Items slice uses the backing array of bill.Items
QueryHandlerAliased(b) ==
    [ID |-> b.ID, Status |-> b.Status, Currency |-> b.Currency, Total |-> b.Total,
     Items |-> b.Items, shared |-> TRUE, edited |-> FALSE]

QueryHandlerNoIDCurrency(b) ==
    [ID |-> "", Status |-> b.Status, Currency |-> "", Total |-> b.Total,
     Items |-> b.Items, shared |-> FALSE, edited |-> FALSE]

QueryHandler(b) ==
    [ID |-> b.ID, Status |-> b.Status, Currency |-> b.Currency, Total |-> b.Total,
     Items |-> b.Items, shared |-> FALSE, edited |-> FALSE]

queryFrame == <<chanVars, timer, deadlinePassed, pc, taskVars, tailVars, result,
                ignored, expireFrom, atCharge, call, sideVars>>

\* Service.GetBill / env.QueryWorkflow: the handler runs between two steps of
\* the workflow's coroutines
QueryBillCall ==
    /\ snap' = QueryHandler(bill)
    /\ UNCHANGED <<bill, queryFrame>>

\* the caller overwrites the amount of the first item of the result it
\* holds and is done with it; a shared backing array makes the write land
\* in bill.Items too
CallerEdits ==
    /\ snap.Status # ""
    /\ Len(snap.Items) > 0
    /\ snap' = [NoSnap EXCEPT !.edited = TRUE]
    /\ bill' = IF snap.shared THEN [bill EXCEPT !.Items[1].Amount = 0] ELSE bill
    /\ UNCHANGED queryFrame

\* what the caller reads from the result it holds
SnapView ==
    IF snap.shared
    THEN [snap EXCEPT !.Items = [i \in 1..Len(snap.Items) |-> bill.Items[i]]]
    ELSE snap

NextQuery ==
    \/ Next
    \/ QueryBillCall
    \/ CallerEdits

SpecQuery == Init /\ [][NextQuery]_vars

\* ----------------------------------- SpecApi: the service endpoints
\* the endpoints reach the workflow only through QueryWorkflow and
\* SignalWorkflow; two callers run them concurrently
AlreadyExists == "AlreadyExists"
Internal == "Internal"

ApiAmounts == {0, 1}
ApiPayloads == [ID : ItemIDs, Name : {"Book"}, Amount : ApiAmounts, Status : {ItemPending}]

apiFrame == <<bill, timer, deadlinePassed, pc, taskVars, tailVars, result, ignored,
              expireFrom, atCharge, call, queryVars, ledgerVars, orderVars>>

\* a query is answered once the workflow has processed every event recorded
\* before it: the main coroutine is blocked in Select or in a Wait
Quiescent ==
    /\ pc # "switch"
    /\ pc = "select" => \A k \in 1..Len(SelectorCases) : ~CaseReady(SelectorCases[k])
    /\ pc = "chargeWait" => ~Wait(chargeWG)
    /\ pc = "refundWait" => ~Wait(refundWG)

\* the endpoint returns err (and, for ChargeBill and CancelBill, a snapshot
\* with this status)
Respond(c, op, err, status) ==
    /\ ret' = [op |-> op, err |-> err, status |-> status]
    /\ req' = [req EXCEPT ![c] = NoRequest]

\* the endpoint passed its checks and goes on to SignalWorkflow
Proceed(c, op, li) ==
    /\ req' = [req EXCEPT ![c] = [op |-> op, pc |-> "checked", li |-> li]]
    /\ UNCHANGED ret

\* Service.AddItem up to its checks of the queried snapshot
ApiAddItem(c, li) ==
    /\ req[c].pc = "idle"
    /\ IF li.Amount <= 0
       THEN Respond(c, "AddItem", InvalidArgument, "")
       ELSE /\ Quiescent
            /\ LET s == QueryHandler(bill) IN
                IF s.Status # BillOpen
                THEN Respond(c, "AddItem", FailedPrecondition, "")
                ELSE IF \E i \in 1..Len(s.Items) : s.Items[i].ID = li.ID
                THEN Respond(c, "AddItem", AlreadyExists, "")
                ELSE Proceed(c, "AddItem", li)
    /\ UNCHANGED <<chanVars, okAdds, apiFrame>>

\* Service.ChargeBill up to its checks of the queried snapshot
ApiChargeBill(c) ==
    /\ req[c].pc = "idle"
    /\ Quiescent
    /\ LET s == QueryHandler(bill) IN
        IF s.Status # BillOpen
        THEN Respond(c, "ChargeBill", FailedPrecondition, "")
        ELSE IF PendingCount(s) = 0
        THEN Respond(c, "ChargeBill", FailedPrecondition, "")
        ELSE Proceed(c, "ChargeBill", NoRequest.li)
    /\ UNCHANGED <<chanVars, okAdds, apiFrame>>

\* Service.CancelBill up to its check of the queried snapshot
ApiCancelBill(c) ==
    /\ req[c].pc = "idle"
    /\ Quiescent
    /\ LET s == QueryHandler(bill) IN
        IF s.Status # BillOpen
        THEN Respond(c, "CancelBill", FailedPrecondition, "")
        ELSE Proceed(c, "CancelBill", NoRequest.li)
    /\ UNCHANGED <<chanVars, okAdds, apiFrame>>

\* SignalWorkflow of the three endpoints; AddItem returns its result
ApiSignal(c) ==
    /\ req[c].pc = "checked"
    /\ IF pc = "done"
       THEN /\ Respond(c, req[c].op, Internal, "")
            /\ UNCHANGED <<chanVars, okAdds>>
       ELSE /\ sent < MaxSignals
            /\ sent' = sent + 1
            /\ addCh' = IF req[c].op = "AddItem" THEN Append(addCh, req[c].li) ELSE addCh
            /\ chargeCh' = IF req[c].op = "ChargeBill" THEN chargeCh + 1 ELSE chargeCh
            /\ cancelCh' = IF req[c].op = "CancelBill" THEN cancelCh + 1 ELSE cancelCh
            /\ IF req[c].op = "AddItem"
               THEN /\ Respond(c, "AddItem", ErrNil, "")
                    /\ okAdds' = [okAdds EXCEPT ![req[c].li.ID] = @ + 1]
               ELSE /\ req' = [req EXCEPT ![c].pc = "signalled"]
                    /\ UNCHANGED <<ret, okAdds>>
    /\ UNCHANGED apiFrame

\* the second QueryWorkflow of ChargeBill and CancelBill and their return
ApiQuery2(c) ==
    /\ req[c].pc = "signalled"
    /\ Quiescent
    /\ Respond(c, req[c].op, ErrNil, QueryHandler(bill).Status)
    /\ UNCHANGED <<chanVars, okAdds, apiFrame>>

NextApi ==
    \/ \E c \in Callers, li \in ApiPayloads : ApiAddItem(c, li)
    \/ \E c \in Callers : ApiChargeBill(c)
    \/ \E c \in Callers : ApiCancelBill(c)
    \/ \E c \in Callers : ApiSignal(c)
    \/ \E c \in Callers : ApiQuery2(c)
    \/ DeadlinePasses
    \/ SelectAdd
    \/ SelectCharge
    \/ SelectCancel
    \/ SelectTimer
    \/ Switch
    \/ \E i \in 1..Len(bill.Items), ok \in BOOLEAN : ChargeAttempt(i, ok)
    \/ Resolve
    \/ \E i \in 1..Len(bill.Items) : Refund(i)
    \/ Compensate
    \/ \E ok \in BOOLEAN : CreditAttempt(ok)

SpecApi == Init /\ [][NextApi]_vars

\* ------------------- SpecFanOut: the charge and refund fan-out alone
\* the workflow from the moment the loop was left by a successful
\* BeginCharge, for bills of up to MaxFanOut items
FanOutIDs == <<"a", "b", "c", "d">>

FanOutItems(names) ==
    [i \in DOMAIN names |-> [ID |-> FanOutIDs[i], Name |-> names[i], Amount |-> 1,
                             Status |-> ItemPending]]

InitFanOut ==
    /\ \E n \in 1..MaxFanOut : \E names \in [1..n -> Names] :
          /\ bill = [NewBill EXCEPT !.Status = BillCharging,
                                    !.Items = FanOutItems(names),
                                    !.Total = n]
          /\ sent = n + 1
    /\ atCharge = bill
    /\ addCh = <<>>
    /\ chargeCh = 0
    /\ cancelCh = 0
    /\ timer = "canceled"
    /\ deadlinePassed = FALSE
    /\ pc = "switch"
    /\ chargeTasks = {}
    /\ attempts = <<>>
    /\ outcome = <<>>
    /\ chargeWG = 0
    /\ refundTasks = {}
    /\ refundWG = 0
    /\ refundedCount = 0
    /\ creditAttempts = 0
    /\ balance = 0
    /\ result = Running
    /\ ignored = {}
    /\ launched = {}
    /\ refundLaunched = {}
    /\ tallied = NoTally
    /\ expireFrom = {}
    /\ call = NoCall
    /\ credited = {}
    /\ snap = NoSnap
    /\ LedgerIdle
    /\ ApiIdle
    /\ OrderIdle

NextFanOut ==
    \/ Switch
    \/ \E i \in 1..Len(bill.Items), ok \in BOOLEAN : ChargeAttempt(i, ok)
    \/ Resolve
    \/ \E i \in 1..Len(bill.Items) : Refund(i)
    \/ Compensate
    \/ \E ok \in BOOLEAN : CreditAttempt(ok)

SpecFanOut == InitFanOut /\ [][NextFanOut]_vars

\* ------------------- SpecOrder: the order of cancel and charge signals
\* SignalWorkflow(SignalChargeBill), with the record of whether a cancel
\* signal delivered to the Open bill before it is still in its channel
SignalChargeBillOrdered ==
    /\ pc # "done"
    /\ sent < MaxSignals
    /\ chargeCh' = chargeCh + 1
    /\ sent' = sent + 1
    /\ cancelFirst' = (cancelFirst \/ (bill.Status = BillOpen /\ cancelCh > 0))
    /\ UNCHANGED <<bill, addCh, cancelCh, timer, deadlinePassed, pc, taskVars,
                   tailVars, result, ignored, expireFrom, atCharge, call, queryVars,
                   ledgerVars, apiVars>>

NextOrder ==
    \/ \E li \in Payloads : SignalAddLineItem(li)
    \/ SignalCancelBill
    \/ SignalChargeBillOrdered
    \/ Progress

SpecOrder == Init /\ [][NextOrder]_vars

\* ------------------------------------------------------------ properties
ItemIdx == 1..Len(bill.Items)

\* C1: in every reachable state of a workflow execution, Total is the sum of
\* the amounts of the items in the list and no two items share an ID.
TotalIsSumAndIDsUnique ==
    /\ bill.Total = SumAmounts(bill.Items)
    /\ UniqueIDs(bill.Items)

\* a bill of two items that also ignored a duplicate add and has terminated
TwoItemsAfterDuplicate ==
    /\ Len(bill.Items) = 2
    /\ ErrDuplicateItem \in ignored
    /\ bill.Total = bill.Items[1].Amount + bill.Items[2].Amount
    /\ bill.Status \in TerminalStatuses

\* the charge activities of all items have returned, some with an error and
\* some without
PartialFailure ==
    /\ tallied.ran
    /\ \E i \in DOMAIN outcome : outcome[i] = "err"
    /\ \E i \in DOMAIN outcome : outcome[i] = "ok"

\* C2: a workflow that returned after a partial failure left the bill
\* Compensated, the items whose charge failed Failed, the items whose charge
\* succeeded Refunded, and returned ChargeCompensated with exactly the IDs of
\* the failed items.
PartialFailureCompensates ==
    (pc = "done" /\ PartialFailure) =>
        /\ bill.Status = BillCompensated
        /\ \A i \in ItemIdx :
              /\ outcome[i] = "err" => bill.Items[i].Status = ItemFailed
              /\ outcome[i] = "ok" => bill.Items[i].Status = ItemRefunded
        /\ result.kind = "ChargeCompensated"
        /\ Len(result.details) = Cardinality({i \in ItemIdx : outcome[i] = "err"})
        /\ {result.details[k] : k \in 1..Len(result.details)}
              = {bill.Items[i].ID : i \in {j \in ItemIdx : outcome[j] = "err"}}

CompensatedTwoItems ==
    /\ pc = "done"
    /\ PartialFailure
    /\ Len(bill.Items) = 2
    /\ bill.Status = BillCompensated
    /\ Len(result.details) = 1

\* every charge activity returned without error
AllCharged ==
    /\ tallied.ran
    /\ \A i \in DOMAIN outcome : outcome[i] = "ok"

\* C3: a workflow that returned after every charge succeeded left the bill
\* Settled with every item Charged and Total as it was at the charge trigger,
\* and returned no error.
AllSucceedSettles ==
    (pc = "done" /\ AllCharged) =>
        /\ bill.Status = BillSettled
        /\ \A i \in ItemIdx : bill.Items[i].Status = ItemCharged
        /\ bill.Total = atCharge.Total
        /\ result.kind = ErrNil

\* two items settled although the ledger credit failed on every attempt
SettledTwoItemsCreditFailed ==
    /\ pc = "done"
    /\ AllCharged
    /\ Len(bill.Items) = 2
    /\ bill.Total = SumAmounts(bill.Items)
    /\ creditAttempts = MaximumAttempts
    /\ balance = 0

\* every charge activity returned an error
AllFailed ==
    /\ tallied.ran
    /\ \A i \in DOMAIN outcome : outcome[i] = "err"

\* C4: a workflow that returned after every charge failed left the bill
\* Failed with every item Failed, returned ChargeFailed listing every item's
\* ID, and started no refund.
AllFailFails ==
    (pc = "done" /\ AllFailed) =>
        /\ bill.Status = BillFailed
        /\ \A i \in ItemIdx : bill.Items[i].Status = ItemFailed
        /\ result.kind = "ChargeFailed"
        /\ Len(result.details) = Len(bill.Items)
        /\ \A i \in ItemIdx : result.details[i] = bill.Items[i].ID
        /\ refundLaunched = {}
        /\ refundedCount = 0

FailedTwoItems ==
    /\ pc = "done"
    /\ AllFailed
    /\ Len(bill.Items) = 2
    /\ bill.Status = BillFailed
    /\ \A i \in ItemIdx : attempts[i] = MaximumAttempts

\* C5: a step taken while the bill's status is terminal leaves the bill (its
\* status, item list, item statuses and Total) as it is.
TerminalBillFrozen ==
    [][bill.Status \in TerminalStatuses => bill' = bill]_vars

\* a settled bill with an add-item signal left in the channel, the deadline
\* passed and the credit activity completed
SettledThenEvents ==
    /\ bill.Status = BillSettled
    /\ pc = "done"
    /\ addCh # <<>>
    /\ deadlinePassed
    /\ timer = "canceled"
    /\ creditAttempts > 0

\* C6: Expire is only invoked while the status is Open, and no step taken
\* after the bill left Open through a charge or cancel request invokes Expire
\* or makes the status Expired.
NoExpireAfterChargeOrCancel ==
    /\ [](expireFrom \subseteq {BillOpen})
    /\ [][bill.Status \notin {BillOpen, BillExpired} =>
            (bill'.Status # BillExpired /\ expireFrom' = expireFrom)]_vars

\* the deadline passed after a cancel request had canceled the timer
DeadlineAfterCancel ==
    /\ bill.Status = BillCanceled
    /\ timer = "canceled"
    /\ deadlinePassed
    /\ expireFrom = {}
    /\ pc = "done"

\* C7: the tally runs with no charge task still running, and a bill that is
\* Settled, Failed or Compensated has no Pending item.
ResolveAfterBarrier ==
    /\ tallied.running = {}
    /\ tallied.ran => (chargeTasks = {} /\ chargeWG = 0)
    /\ bill.Status \in {BillSettled, BillFailed, BillCompensated} =>
          \A i \in ItemIdx : bill.Items[i].Status # ItemPending

\* the tally ran after two charge tasks, one of which needed a retry
TalliedAfterTwoTasks ==
    /\ tallied.ran
    /\ Cardinality(launched) = 2
    /\ tallied.totalItems = 2
    /\ \E i \in ItemIdx : attempts[i] > 1

AllowedItemTransitions ==
    {<<ItemPending, ItemCharged>>, <<ItemPending, ItemFailed>>,
     <<ItemPending, ItemCanceled>>, <<ItemCharged, ItemRefunded>>}

\* C8: in every step, each item keeps its status or moves along
\* Pending->Charged, Pending->Failed, Pending->Canceled or Charged->Refunded.
ItemTransitionsAllowed ==
    [][\A i \in ItemIdx :
          \/ bill'.Items[i].Status = bill.Items[i].Status
          \/ <<bill.Items[i].Status, bill'.Items[i].Status>> \in AllowedItemTransitions]_vars

\* a bill with a refunded and a failed item: both two-step paths were taken
RefundedAndFailed ==
    /\ \E i \in ItemIdx : bill.Items[i].Status = ItemRefunded
    /\ \E i \in ItemIdx : bill.Items[i].Status = ItemFailed

\* C9: AddItem called on a bill that is not Open returns the not-open error
\* and leaves the bill (status, items, Total) unchanged.
AddItemNotOpenRejected ==
    (call.op = "AddItem" /\ call.before.Status # BillOpen) =>
        /\ call.err = ErrBillNotOpen
        /\ bill.Status = call.before.Status
        /\ bill.Items = call.before.Items
        /\ bill.Total = call.before.Total

\* AddItem was called on a Charging bill that holds an item
AddItemCalledWhileCharging ==
    /\ call.op = "AddItem"
    /\ call.before.Status = BillCharging
    /\ Len(call.before.Items) = 1
    /\ call.err = ErrBillNotOpen

\* the loop receives an add-item whose ID is already in the bill
DuplicateAddStep ==
    /\ pc = "select"
    /\ addCh # <<>>
    /\ addCh' = Tail(addCh)
    /\ \E i \in ItemIdx : bill.Items[i].ID = Head(addCh).ID

\* C10: an add-item with an ID already in the Open bill is rejected with the
\* duplicate error, leaves the bill unchanged and the loop waiting for the
\* next stimulus; a bill that ignored a duplicate and was then charged has
\* one charge task per stored item and, once Settled, every item Charged.
DuplicateAddRejected ==
    /\ [][DuplicateAddStep =>
            /\ AddItem(bill, Head(addCh)).err = ErrDuplicateItem
            /\ ErrDuplicateItem \in ignored'
            /\ bill' = bill
            /\ pc' = "select"]_vars
    /\ []((ErrDuplicateItem \in ignored /\ bill.Status = BillSettled) =>
            /\ launched = ItemIdx
            /\ \A i \in ItemIdx : bill.Items[i].Status = ItemCharged /\ attempts[i] >= 1
            /\ bill.Total = SumAmounts(bill.Items))

\* "dup" added twice, then charged: one item, its amount as Total, Settled
DuplicateThenSettled ==
    /\ ErrDuplicateItem \in ignored
    /\ Len(bill.Items) = 1
    /\ bill.Total = bill.Items[1].Amount
    /\ bill.Status = BillSettled
    /\ pc = "done"
    /\ result.kind = ErrNil

HasPending(items) == \E i \in 1..Len(items) : items[i].Status = ItemPending

\* C11: BeginCharge on a bill that is not Open returns the not-open error, on
\* an Open bill without a Pending item the no-pending-items error, both
\* leaving the bill as it was; on an Open bill with a Pending item it sets
\* the status to Charging and changes nothing else.
BeginChargeContract ==
    call.op = "BeginCharge" =>
        IF call.before.Status # BillOpen
        THEN call.err = ErrBillNotOpen /\ bill = call.before
        ELSE IF ~HasPending(call.before.Items)
        THEN call.err = ErrNoPendingItems /\ bill = call.before /\ bill.Status = BillOpen
        ELSE /\ call.err = ErrNil
             /\ bill.Status = BillCharging
             /\ bill.Items = call.before.Items
             /\ bill.Total = call.before.Total
             /\ bill.ID = call.before.ID
             /\ bill.Currency = call.before.Currency

\* BeginCharge rejected an Open bill whose only item is already Charged
BeginChargeNoPendingRejected ==
    /\ call.op = "BeginCharge"
    /\ call.before.Status = BillOpen
    /\ Len(call.before.Items) = 1
    /\ call.before.Items[1].Status = ItemCharged
    /\ call.err = ErrNoPendingItems

\* what Cancel and Expire make of an item list: Pending becomes Canceled and
\* every other item, the order and the length stay
PendingCanceled(before, after) ==
    /\ Len(after) = Len(before)
    /\ \A i \in 1..Len(before) :
          after[i] = IF before[i].Status = ItemPending
                     THEN [before[i] EXCEPT !.Status = ItemCanceled]
                     ELSE before[i]

\* C13: Cancel on an Open bill sets the status to Canceled and every Pending
\* item to Canceled; the other items, the item order and Total stay.
CancelOpenContract ==
    (call.op = "Cancel" /\ call.before.Status = BillOpen) =>
        /\ call.err = ErrNil
        /\ bill.Status = BillCanceled
        /\ PendingCanceled(call.before.Items, bill.Items)
        /\ bill.Total = call.before.Total

\* an Open bill with a Pending and a Charged item was canceled
CanceledMixedItems ==
    /\ call.op = "Cancel"
    /\ call.before.Status = BillOpen
    /\ Len(call.before.Items) = 2
    /\ call.before.Items[1].Status = ItemPending
    /\ call.before.Items[2].Status = ItemCharged
    /\ bill.Status = BillCanceled

\* C14: Cancel on a bill that is not Open returns the cannot-cancel error and
\* leaves the bill's status and every item's status unchanged.
CancelNotOpenRejected ==
    (call.op = "Cancel" /\ call.before.Status # BillOpen) =>
        /\ call.err = ErrCannotCancel
        /\ bill.Status = call.before.Status
        /\ bill.Items = call.before.Items

\* Cancel was called on a Charging bill that holds a Pending item
CancelCalledWhileCharging ==
    /\ call.op = "Cancel"
    /\ call.before.Status = BillCharging
    /\ HasPending(call.before.Items)
    /\ call.err = ErrCannotCancel

\* C15: Expire, whatever the status and the number of items, sets the status
\* to Expired and every Pending item to Canceled, leaves the other items and
\* Total as they were, and reports no error.
ExpireContract ==
    call.op = "Expire" =>
        /\ call.err = ErrNil
        /\ bill.Status = BillExpired
        /\ PendingCanceled(call.before.Items, bill.Items)
        /\ bill.Total = call.before.Total

\* Expire was called on a Settled bill with a Pending and a Refunded item
ExpiredFromSettled ==
    /\ call.op = "Expire"
    /\ call.before.Status = BillSettled
    /\ Len(call.before.Items) = 2
    /\ call.before.Items[1].Status = ItemPending
    /\ call.before.Items[2].Status = ItemRefunded
    /\ bill.Status = BillExpired

\* C12: a charge request on a bill without a Pending item leaves the bill
\* Open, the deadline timer as it was and the loop waiting for the next event;
\* an Open bill never has a canceled timer, and a run that ends Expired
\* returns no error.
RejectedChargeKeepsLoop ==
    /\ [](bill.Status = BillOpen => timer # "canceled")
    /\ []((pc = "done" /\ bill.Status = BillExpired) => result.kind = ErrNil)
    /\ [][(pc = "select" /\ chargeCh' = chargeCh - 1 /\ ~HasPending(bill.Items)) =>
            /\ bill' = bill
            /\ bill.Status = BillOpen
            /\ timer' = timer
            /\ pc' = "select"]_vars

\* an empty bill refused a charge request and then expired without an error
EmptyChargeThenExpired ==
    /\ ErrNoPendingItems \in ignored
    /\ Len(bill.Items) = 0
    /\ pc = "done"
    /\ bill.Status = BillExpired
    /\ result.kind = ErrNil

\* C18: an item's charge is attempted at most 5 times; an item is Failed only
\* with 5 failed attempts behind it; a task that has its final result makes
\* no further attempt; a failed item leaves the other charge tasks running
\* and the workflow waiting for them.
ChargeRetryContract ==
    /\ [](\A i \in DOMAIN attempts :
            /\ attempts[i] <= 5
            /\ bill.Items[i].Status = ItemFailed =>
                  (attempts[i] = 5 /\ outcome[i] = "err")
            /\ outcome[i] = "ok" =>
                  (attempts[i] >= 1 /\ bill.Items[i].Status \in {ItemCharged, ItemRefunded})
            /\ (bill.Items[i].Status = ItemFailed /\ chargeTasks # {}) =>
                  (pc = "chargeWait" /\ result = Running))
    /\ [][\A i \in DOMAIN attempts :
            /\ i \notin chargeTasks => attempts'[i] = attempts[i]
            /\ (i \in chargeTasks /\ attempts'[i] = attempts[i]) => i \in chargeTasks'
            /\ outcome[i] # "none" => outcome'[i] = outcome[i]]_vars

\* one item failed on its fifth attempt while the other, still being retried,
\* was charged afterwards on its third attempt
FailedFifthChargedThird ==
    /\ Len(bill.Items) = 2
    /\ bill.Items[1].Status = ItemFailed
    /\ attempts[1] = 5
    /\ bill.Items[2].Status = ItemCharged
    /\ attempts[2] = 3

\* C19: the workflow returns the ChargeFailed error exactly when the bill
\* ends Failed and the ChargeCompensated error exactly when it ends
\* Compensated, each with the IDs of the Failed items; it returns no error
\* exactly when the bill ends Settled, Canceled or Expired; once it has
\* returned an error no charge is attempted and nothing changes.
ErrorOnlyForFailedOrCompensated ==
    /\ [](pc # "done" => result = Running)
    /\ [](pc = "done" =>
            /\ result.kind \in {ErrNil, "ChargeFailed", "ChargeCompensated"}
            /\ result.kind = "ChargeFailed" <=> bill.Status = BillFailed
            /\ result.kind = "ChargeCompensated" <=> bill.Status = BillCompensated
            /\ result.kind = ErrNil <=>
                  bill.Status \in {BillSettled, BillCanceled, BillExpired}
            /\ result.kind # ErrNil =>
                  /\ result.details = SelectSeqIDs(bill.Items, ItemFailed)
                  /\ result.details # <<>>)
    /\ [][result.kind \in {"ChargeFailed", "ChargeCompensated"} =>
            /\ attempts' = attempts
            /\ bill' = bill
            /\ result' = result]_vars

\* a bill whose only item failed returned ChargeFailed naming that item
FailedSingleItemNamed ==
    /\ pc = "done"
    /\ Len(bill.Items) = 1
    /\ bill.Status = BillFailed
    /\ result = [kind |-> "ChargeFailed", details |-> <<bill.Items[1].ID>>]

\* C20: a ledger credit is attempted only for a bill that is Settled after
\* every charge succeeded, and always for the bill's Total in the bill's
\* currency; a credit attempt, successful or not, changes neither the bill
\* nor the charge attempts; a Settled run has attempted the credit and
\* returns no error; no credit is attempted for a Failed, Compensated,
\* Canceled or Expired bill.
CreditOnlyWhenSettled ==
    /\ [](creditAttempts > 0 =>
            /\ bill.Status = BillSettled
            /\ tallied.ran /\ tallied.failedCount = 0
            /\ \A i \in ItemIdx : outcome[i] = "ok" /\ bill.Items[i].Status = ItemCharged
            /\ credited = {[amount |-> bill.Total, currency |-> bill.Currency]})
    /\ [](creditAttempts = 0 => credited = {})
    /\ []((tallied.ran /\ tallied.failedCount = 0) => bill.Status = BillSettled)
    /\ []((pc = "done" /\ bill.Status = BillSettled) =>
            (creditAttempts >= 1 /\ result.kind = ErrNil))
    /\ [](bill.Status \in {BillFailed, BillCompensated, BillCanceled, BillExpired} =>
            creditAttempts = 0)
    /\ [][creditAttempts' # creditAttempts =>
            /\ bill' = bill
            /\ bill.Status = BillSettled
            /\ attempts' = attempts]_vars

\* a settled bill whose credit failed once and then went through
SettledCreditedOnRetry ==
    /\ pc = "done"
    /\ bill.Status = BillSettled
    /\ creditAttempts = 2
    /\ balance = bill.Total
    /\ credited = {[amount |-> bill.Total, currency |-> BillCur]}
    /\ result.kind = ErrNil

\* the statuses that items carry under each bill status of a workflow run,
\* with Total the sum of the listed amounts
ConsistentView(v) ==
    /\ v.Total = SumAmounts(v.Items)
    /\ UniqueIDs(v.Items)
    /\ \A i \in 1..Len(v.Items) :
          v.Items[i].Status \in
              CASE v.Status = BillOpen        -> {ItemPending}
                [] v.Status = BillCharging    -> {ItemPending, ItemCharged, ItemFailed, ItemRefunded}
                [] v.Status = BillSettled     -> {ItemCharged}
                [] v.Status = BillFailed      -> {ItemFailed}
                [] v.Status = BillCompensated -> {ItemRefunded, ItemFailed}
                [] OTHER                      -> {ItemCanceled}
    /\ (/\ v.Status = BillCharging
        /\ \E i \in 1..Len(v.Items) : v.Items[i].Status = ItemRefunded)
          => ~(\E j \in 1..Len(v.Items) : v.Items[j].Status = ItemPending)

\* C16: what a caller reads from a QueryBill result is a bill as the loop
\* had it: its Total is the sum of its items, and its status and item
\* statuses are a combination the bill goes through; the steps the workflow
\* takes after the query do not change what the caller reads.
QueryShowsOneState ==
    /\ [](snap.Status # "" => ConsistentView(SnapView))
    /\ [][(snap.Status # "" /\ snap' = snap) => SnapView' = SnapView]_vars

\* a result taken in the middle of the charge fan-out is still held when the
\* bill has ended Compensated
SnapshotMidChargeKept ==
    /\ snap.Status = BillCharging
    /\ Len(snap.Items) = 2
    /\ snap.Items[1].Status = ItemCharged
    /\ snap.Items[2].Status = ItemPending
    /\ bill.Status = BillCompensated
    /\ bill.Items[1].Status = ItemRefunded

\* C17: a QueryBill result carries the bill's id, status, currency, total and
\* its items in order with id, name, amount and status, each as the bill has
\* it when the query is made; neither the query nor a later write of the
\* caller to the result changes the bill.
QueryResultIsFullCopy ==
    /\ [][(snap' # snap /\ snap'.Status # "") =>
            /\ snap'.ID = bill.ID
            /\ snap'.Status = bill.Status
            /\ snap'.Currency = bill.Currency
            /\ snap'.Total = bill.Total
            /\ Len(snap'.Items) = Len(bill.Items)
            /\ \A i \in 1..Len(bill.Items) :
                  /\ snap'.Items[i].ID = bill.Items[i].ID
                  /\ snap'.Items[i].Name = bill.Items[i].Name
                  /\ snap'.Items[i].Amount = bill.Items[i].Amount
                  /\ snap'.Items[i].Status = bill.Items[i].Status
            /\ bill' = bill]_vars
    /\ [][(snap' # snap /\ snap'.edited) => bill' = bill]_vars

\* the caller wrote to the result of a query of a two-item bill, and the
\* bill went on to settle with its amounts as they were
EditedResultBillIntact ==
    /\ snap.edited
    /\ Len(bill.Items) = 2
    /\ bill.Items[1].Amount = 2
    /\ bill.Total = 3
    /\ bill.Status = BillSettled

ItemsOnlyAppended ==
    [][/\ Len(bill'.Items) \in {Len(bill.Items), Len(bill.Items) + 1}
       /\ \A i \in 1..Len(bill.Items) :
             /\ bill'.Items[i].ID = bill.Items[i].ID
             /\ bill'.Items[i].Name = bill.Items[i].Name
             /\ bill'.Items[i].Amount = bill.Items[i].Amount]_vars

\* two items added as "b" then "a" are still there in that order after the
\* bill was canceled
CanceledKeepsOrder ==
    /\ bill.Status = BillCanceled
    /\ Len(bill.Items) = 2
    /\ bill.Items[1].ID = "b" /\ bill.Items[1].Status = ItemCanceled
    /\ bill.Items[2].ID = "a" /\ bill.Items[2].Status = ItemCanceled
    /\ pc = "done"

\* C29: Total changes only in a step that appends an item to an Open bill,
\* and then by exactly that item's amount; every step that appends an item
\* changes it so.
TotalIsGross ==
    [][/\ bill'.Total # bill.Total =>
             /\ bill.Status = BillOpen
             /\ Len(bill'.Items) = Len(bill.Items) + 1
       /\ Len(bill'.Items) = Len(bill.Items) + 1 =>
             bill'.Total = bill.Total + bill'.Items[Len(bill'.Items)].Amount
       /\ Len(bill'.Items) = Len(bill.Items) => bill'.Total = bill.Total]_vars

\* a compensated bill still totals the amounts of its failed and its
\* refunded item
CompensatedTotalGross ==
    /\ bill.Status = BillCompensated
    /\ Len(bill.Items) = 2
    /\ bill.Items[1].Amount = 1 /\ bill.Items[1].Status = ItemFailed
    /\ bill.Items[2].Amount = 2 /\ bill.Items[2].Status = ItemRefunded
    /\ bill.Total = 3

\* C28: every line item held by the bill has an amount greater than zero,
\* whatever add-item payloads reach the workflow.
HeldAmountsPositive ==
    \A i \in ItemIdx : bill.Items[i].Amount > 0

\* C30: the workflow eventually returns with the bill in a terminal status;
\* a run that returns without a successful charge and without a successful
\* cancel has the bill Expired.
EveryBillTerminates ==
    /\ <>(pc = "done" /\ bill.Status \in TerminalStatuses)
    /\ [](pc = "done" => bill.Status \in TerminalStatuses)
    /\ []((pc = "done" /\ atCharge = NewBill /\ bill.Status # BillCanceled) =>
            bill.Status = BillExpired)

\* two items were added, no charge or cancel request succeeded, and the run
\* ended Expired
ExpiredWithTwoItems ==
    /\ pc = "done"
    /\ bill.Status = BillExpired
    /\ Len(bill.Items) = 2
    /\ atCharge = NewBill
    /\ ErrNoPendingItems \in ignored

InCritical(t) == thr[t].pc \in {"check", "read", "write", "copy"}

\* C25: whenever the mutex is free the balances are the initial balances
\* plus the amounts of the completed AddBalance calls minus those of the
\* completed Withdraw calls; at most one call is between Lock and Unlock;
\* GetBalances returns exactly those balances.
LedgerUpdatesAtomic ==
    /\ [](mu = 0 => balances = net)
    /\ [](Cardinality({t \in Threads : InCritical(t)}) <= 1)
    /\ [](\A t \in Threads : InCritical(t) => mu = t)
    /\ [][\A t \in Threads :
            (thr[t].pc = "copy" /\ thr'[t].pc = "idle") =>
                (thr'[t].out = net /\ thr'[t].out = balances)]_vars

\* a Withdraw waits for the mutex while an AddBalance on the same currency
\* is between its read and its write
WithdrawWaitsForAdd ==
    /\ mu = 2
    /\ thr[2].op = "AddBalance" /\ thr[2].pc = "write" /\ thr[2].cur = "USD"
    /\ thr[1].op = "Withdraw" /\ thr[1].pc = "lock" /\ thr[1].cur = "USD"
    /\ balances["USD"] = 1

\* the step in which thread t returns from Withdraw on a supported currency
WithdrawReturns(t) ==
    /\ thr'[t] # thr[t]
    /\ thr'[t].op = "Withdraw"
    /\ thr'[t].pc = "idle"
    /\ thr'[t].cur \in Currencies

\* C26 as stated: a Withdraw of more than the balance fails with
\* FailedPrecondition and changes no balance; any other Withdraw reduces the
\* currency's balance by the amount and changes no other balance.
WithdrawByBalanceOnly ==
    [][\A t \in Threads : WithdrawReturns(t) =>
          LET c == thr'[t].cur
              a == thr'[t].amt
          IN IF a > balances[c]
             THEN thr'[t].err = FailedPrecondition /\ balances' = balances
             ELSE balances' = [balances EXCEPT ![c] = @ - a]]_vars

\* C26: a Withdraw of a positive amount greater than the balance fails with
\* FailedPrecondition and changes no balance; one of a positive amount not
\* greater than the balance succeeds, reduces the currency's balance by the
\* amount and changes no other balance; one of an amount of zero or less
\* fails with InvalidArgument and changes no balance.
WithdrawContract ==
    [][\A t \in Threads : WithdrawReturns(t) =>
          LET c == thr'[t].cur
              a == thr'[t].amt
          IN IF a <= 0
             THEN thr'[t].err = InvalidArgument /\ balances' = balances
             ELSE IF a > balances[c]
             THEN thr'[t].err = FailedPrecondition /\ balances' = balances
             ELSE /\ thr'[t].err = ErrNil
                  /\ balances' = [balances EXCEPT ![c] = @ - a]]_vars

\* a Withdraw of the whole balance of EUR went through and left USD alone
WithdrewWholeBalance ==
    /\ thr[1].op = "Withdraw" /\ thr[1].pc = "idle" /\ thr[1].err = ErrNil
    /\ thr[1].cur = "EUR" /\ thr[1].amt = 1
    /\ balances["EUR"] = 0
    /\ balances["USD"] = 1
    /\ ops = 1

ItemsWithID(id) == {i \in 1..Len(bill.Items) : bill.Items[i].ID = id}

\* C22: once every delivered add-item signal has been handled (or the loop
\* has stopped handling them), every AddItem call that returned without
\* error has its item in the bill: per item ID, no more calls succeeded
\* than the bill holds items with that ID.
AddItemSuccessMeansAppended ==
    (addCh = <<>> \/ pc # "select") =>
        \A id \in ItemIDs : okAdds[id] <= Cardinality(ItemsWithID(id))

\* C23: a ChargeBill call that returns without error returns a snapshot
\* whose status is Charging.
ChargeBillReturnsCharging ==
    (ret.op = "ChargeBill" /\ ret.err = ErrNil) => ret.status = BillCharging

\* C24: a CancelBill call that returns without error returns a snapshot
\* whose status is Canceled.
CancelBillReturnsCanceled ==
    (ret.op = "CancelBill" /\ ret.err = ErrNil) => ret.status = BillCanceled

\* C31: the switch after the loop is entered only with status Charging,
\* Canceled or Expired, and BillWorkflow never returns the "invalid state"
\* error.
InvalidStateUnreachable ==
    /\ pc = "switch" => bill.Status \in {BillCharging, BillCanceled, BillExpired}
    /\ result.kind # "invalid state"

\* the loop was left by a cancel that followed a rejected charge and the
\* deadline, with further signals still buffered
SwitchEnteredAfterRejectedCharge ==
    /\ pc = "switch"
    /\ bill.Status = BillCanceled
    /\ ErrNoPendingItems \in ignored
    /\ deadlinePassed
    /\ addCh # <<>>

ItemsInStatus(st) == {i \in 1..Len(bill.Items) : bill.Items[i].Status = st}

\* C32: the step that enters the charge fan-out starts one task for each
\* Pending item and for no other; during the fan-out an item's status is
\* changed only by the step in which its own task ends, which changes no
\* other item; after an item's charge succeeded no further attempt is made
\* for it.
ChargeFanOutPerPendingItem ==
    /\ [][(pc = "switch" /\ pc' = "chargeWait") =>
            (/\ chargeTasks' = ItemsInStatus(ItemPending)
             /\ chargeWG' = Cardinality(ItemsInStatus(ItemPending)))]_vars
    /\ [][\A i \in 1..Len(bill.Items) :
            (pc = "chargeWait" /\ bill'.Items[i].Status # bill.Items[i].Status) =>
                (/\ i \in chargeTasks
                 /\ i \notin chargeTasks'
                 /\ bill.Items[i].Status = ItemPending
                 /\ \A j \in 1..Len(bill.Items) :
                        j # i => bill'.Items[j] = bill.Items[j])]_vars
    /\ [][\A i \in DOMAIN outcome :
            outcome[i] = "ok" => attempts'[i] = attempts[i]]_vars

\* three charge tasks were started; the first succeeded, the second failed
\* for good and the third is at its third attempt
ThreeChargeTasksOneRunning ==
    /\ pc = "chargeWait"
    /\ launched = {1, 2, 3}
    /\ outcome[1] = "ok"
    /\ outcome[2] = "err"
    /\ chargeTasks = {3}
    /\ attempts[3] = 2

\* C33: the step that enters the refund fan-out starts one task for each
\* Charged item and for no other; the step in which a refund task ends
\* leaves its item Refunded; in a Compensated bill the Refunded items are
\* the items whose charge succeeded, and refundedCount is their number.
RefundFanOutPerChargedItem ==
    /\ [][(pc = "chargeWait" /\ pc' = "refundWait") =>
            (/\ refundTasks' = ItemsInStatus(ItemCharged)
             /\ refundWG' = Cardinality(ItemsInStatus(ItemCharged)))]_vars
    /\ [][\A i \in 1..Len(bill.Items) :
            (pc = "refundWait" /\ i \in refundTasks /\ i \notin refundTasks') =>
                bill'.Items[i].Status = ItemRefunded]_vars
    /\ [](bill.Status = BillCompensated =>
            (/\ ItemsInStatus(ItemRefunded) = {i \in DOMAIN outcome : outcome[i] = "ok"}
             /\ refundedCount = Cardinality(ItemsInStatus(ItemRefunded))))

\* two refund tasks were started for the two charged items of three; one
\* has ended
TwoRefundTasksOneEnded ==
    /\ pc = "refundWait"
    /\ refundLaunched = {1, 3}
    /\ refundTasks = {3}
    /\ bill.Items[1].Status = ItemRefunded
    /\ bill.Items[2].Status = ItemFailed
    /\ bill.Items[3].Status = ItemCharged

\* C34: in a Compensated bill no refund task is running and no item is
\* Charged; while a refund task is running the bill is Charging.
CompensatedAfterRefunds ==
    /\ bill.Status = BillCompensated =>
          (/\ refundTasks = {}
           /\ refundWG = 0
           /\ ItemsInStatus(ItemCharged) = {})
    /\ refundTasks # {} => bill.Status = BillCharging

\* the first of two refund tasks has ended, the second still runs and the
\* bill is still Charging
SecondRefundStillRunning ==
    /\ bill.Status = BillCharging
    /\ refundLaunched = {1, 2}
    /\ refundTasks = {2}
    /\ refundedCount = 1
    /\ bill.Items[3].Status = ItemFailed

ChargeTriggered == bill.Status \in {BillCharging, BillSettled, BillFailed, BillCompensated}

\* C35: from the successful BeginCharge on, no step takes a signal out of
\* the three channels (signals delivered later stay buffered), and the
\* bill's items keep the number, IDs and amounts, and the bill the Total,
\* that BeginCharge left.
NoSignalConsumedAfterBeginCharge ==
    /\ [][ChargeTriggered =>
            (/\ Len(addCh') >= Len(addCh)
             /\ SubSeq(addCh', 1, Len(addCh)) = addCh
             /\ chargeCh' >= chargeCh
             /\ cancelCh' >= cancelCh)]_vars
    /\ [](ChargeTriggered =>
            (/\ Len(bill.Items) = Len(atCharge.Items)
             /\ \A i \in 1..Len(bill.Items) :
                    /\ bill.Items[i].ID = atCharge.Items[i].ID
                    /\ bill.Items[i].Amount = atCharge.Items[i].Amount
             /\ bill.Total = atCharge.Total))

\* the workflow returned for a Settled bill of one item while an add-item
\* signal is still in the channel
SettledWithAddBuffered ==
    /\ pc = "done"
    /\ bill.Status = BillSettled
    /\ Len(bill.Items) = 1
    /\ Len(addCh) = 1
    /\ addCh[1].ID # bill.Items[1].ID

AllowedBillTransitions ==
    {<<BillOpen, BillCharging>>, <<BillOpen, BillCanceled>>, <<BillOpen, BillExpired>>,
     <<BillCharging, BillSettled>>, <<BillCharging, BillFailed>>,
     <<BillCharging, BillCompensated>>}

\* C36: the bill starts Open and every step that changes its status takes
\* it along Open->Charging, Open->Canceled, Open->Expired,
\* Charging->Settled, Charging->Failed or Charging->Compensated.
BillTransitionsAllowed ==
    /\ bill.Status = BillOpen
    /\ [][bill'.Status # bill.Status =>
            <<bill.Status, bill'.Status>> \in AllowedBillTransitions]_vars

\* a Failed bill after the deadline has passed and with a cancel signal
\* buffered
FailedPastDeadlineCancelBuffered ==
    /\ bill.Status = BillFailed
    /\ pc = "done"
    /\ deadlinePassed
    /\ cancelCh > 0

\* C37: the step that receives a charge signal is taken only when no
\* add-item signal is buffered, so every add-item signal delivered before
\* it has been handled; and the fan-out that follows a successful
\* BeginCharge starts a task for every item of the bill.
AddsHandledBeforeBeginCharge ==
    /\ [][chargeCh' < chargeCh => addCh = <<>>]_vars
    /\ [][(pc = "switch" /\ pc' = "chargeWait") =>
            launched' = 1..Len(bill.Items)]_vars

\* two add-item signals and one charge signal were delivered, both items
\* were accepted and both are in the fan-out
TwoAddsOneChargeBothLaunched ==
    /\ pc = "chargeWait"
    /\ sent = 3
    /\ ignored = {}
    /\ Len(bill.Items) = 2
    /\ launched = {1, 2}
    /\ chargeTasks = {1, 2}

\* C38: once a charge signal has been delivered to an Open bill after a
\* cancel signal that is still to be handled, the bill is Open or Canceled
\* and no charge task is ever started.
CancelFirstEndsCanceled ==
    cancelFirst =>
        (/\ bill.Status \in {BillOpen, BillCanceled}
         /\ launched = {})

AllItemsIn(sts) == \A i \in 1..Len(bill.Items) : bill.Items[i].Status \in sts

\* C39: while the bill is Open every item is Pending; when it is Canceled
\* or Expired every item is Canceled; when Settled every item is Charged;
\* when Failed every item is Failed; when Compensated every item is Failed
\* or Refunded, with at least one of each; in no terminal status is an item
\* Pending.
ItemsAgreeWithBill ==
    /\ bill.Status = BillOpen => AllItemsIn({ItemPending})
    /\ bill.Status \in {BillCanceled, BillExpired} => AllItemsIn({ItemCanceled})
    /\ bill.Status = BillSettled => AllItemsIn({ItemCharged})
    /\ bill.Status = BillFailed => AllItemsIn({ItemFailed})
    /\ bill.Status = BillCompensated =>
          (/\ AllItemsIn({ItemFailed, ItemRefunded})
           /\ ItemsInStatus(ItemFailed) # {}
           /\ ItemsInStatus(ItemRefunded) # {})
    /\ bill.Status \in TerminalStatuses => ItemsInStatus(ItemPending) = {}

\* a Compensated bill past its deadline whose first item failed at the last
\* attempt and whose second item was refunded
CompensatedFailedFirstPastDeadline ==
    /\ bill.Status = BillCompensated
    /\ deadlinePassed
    /\ Len(bill.Items) = 2
    /\ bill.Items[1].Status = ItemFailed
    /\ attempts[1] = MaximumAttempts
    /\ bill.Items[2].Status = ItemRefunded

\* C40: every currency's ledger balance is greater than or equal to zero.
BalancesNeverNegative ==
    \A c \in Currencies : balances[c] >= 0

====
